---- MODULE Spec2Model ----
(***************************************************************************)
(* Price-refresh pipeline of ki-daily-stoc.                                *)
(*                                                                         *)
(* Two servers live in the repository and share no state:                  *)
(*   - the Django app, src/alerts/views.py (+ src/alerts/tasks.py): the    *)
(*     batched, thread-pool refresh (fetch_stock_prices,                   *)
(*     process_stock_batch, fetch_single_stock_price);                     *)
(*   - the Flask app, src/app.py: the sequential refresh (refresh,         *)
(*     background_monitor, check_and_log_target_hit).                      *)
(* The variable app says which of the two a behaviour is about.            *)
(*                                                                         *)
(* Facts of views.py the model keeps as they are written:                  *)
(*   - the module never imports `time`: time.time() (lines 377, 413) and   *)
(*     time.sleep() (line 305) raise NameError;                            *)
(*   - fetch_sheet reads `resp`, which nothing assigns (line 118): every   *)
(*     tab's load raises NameError, caught at line 151, and the tab is     *)
(*     loaded as the empty list;                                           *)
(*   - fetch_single_stock_price catches every Exception (line 216), so a   *)
(*     future never carries an exception;                                  *)
(*   - as_completed(..., timeout=60) raises TimeoutError from the for      *)
(*     statement itself (line 238), outside the try of lines 239-259.      *)
(* Prices are integers in thousandths of a rupee.                          *)
(***************************************************************************)
EXTENDS Integers, Sequences, FiniteSets, TLC

\* ------------------------------------------------------------------ bounds
\* fetch tasks a behaviour may start in total
MaxFetches == 3
\* reloads (refresh_sheet / load_watchlists) a behaviour may perform
MaxReloads == 1
\* candles the provider returns at most
MaxCandles == 2
\* BATCH_SIZE = 25 at views.py:35, scaled down
BATCH_SIZE == 3
\* MAX_WORKERS = 3 at views.py:37, scaled down below the batch size
MAX_WORKERS == 2

\* ------------------------------------------------------------- input sets
Threads == {"t1", "t2"}

\* SHEET_TABS (views.py:26-32), two of its five tabs, in dict order
SHEET_TABS == <<"Intraday", "FIBOST">>
\* the one sheet of app.py (line 60)
FlaskSheet == "Watchlist 1"
\* a tab name that is in no store
UnknownTab == "Nope"
\* request without a sheet name: None / empty string, both falsy in Python
NoSheet == ""

ScripNames == <<"RELIANCE", "TATASTEEL", "INFY", "SBIN", "ITC", "TCS">>

\* target price of every entry, in thousandths
TargetChoices == {3000000}
\* candle closes the provider may return, in thousandths
Closes == {2950000, 2999996}

Min(a, b) == IF a < b THEN a ELSE b

SeqsUpTo(S, n) == UNION {[1..k -> S] : k \in 0..n}

Range(s) == {s[k] : k \in DOMAIN s}

\* f with key k bound to v (dict item assignment)
Put(f, k, v) == [x \in (DOMAIN f) \cup {k} |-> IF x = k THEN v ELSE f[x]]

\* the empty dict
EmptyDict == [x \in {} |-> FALSE]

\* no clock reading taken
NoTime == [weekday |-> 0, hour |-> 0, minute |-> 0, second |-> 0]

\* round(float(x), 2): to the nearest hundredth (no input here is a tie)
Round2(x) == ((x + 5) \div 10) * 10

\* views.py normalize_symbol / line 136: names here carry no "."
normalize_symbol(scrip) == <<scrip, ".NS">>

\* one row as fetch_sheet (views.py:137-143) builds it
NewStock(scrip, tp) ==
    [scrip_name |-> scrip, target_price |-> tp, yf_symbol |-> normalize_symbol(scrip),
     current_price |-> 0, status |-> "Not Fetched"]

\* one row as load_watchlists (app.py:87-93) builds it
NewStockFlask(scrip, tp) ==
    [scrip_name |-> scrip, target_price |-> tp, yf_symbol |-> normalize_symbol(scrip),
     current_price |-> 0, status |-> "Loading..."]

FirstStocks(n, tp) == [k \in 1..n |-> NewStock(ScripNames[k], tp)]

FirstStocksFlask(n, tp) == [k \in 1..n |-> NewStockFlask(ScripNames[k], tp)]

\* the flags fetch_sheet (views.py:148-149) / load_watchlists (app.py:76,94) set
FreshFlags(w) == [s \in DOMAIN w |-> [n \in {w[s][k].scrip_name : k \in DOMAIN w[s]} |-> FALSE]]

\* Stores views.py operates on: the import-time store (line 22), a tab loaded
\* empty, one tab of 1, 2, BATCH_SIZE and BATCH_SIZE+1 entries, and two tabs.
DjangoStores ==
    {EmptyDict, [s \in {"Intraday"} |-> <<>>]}
    \cup {[s \in {"Intraday"} |-> FirstStocks(n, tp)] :
            n \in {1, 2, BATCH_SIZE, BATCH_SIZE + 1}, tp \in TargetChoices}
    \cup {[s \in {"Intraday", "FIBOST"} |->
              IF s = "Intraday" THEN <<NewStock(ScripNames[1], tp)>>
                                ELSE <<NewStock(ScripNames[2], tp)>>] : tp \in TargetChoices}

\* Stores load_watchlists can build: nothing loaded, or the sheet with 1 or 2 rows
FlaskStores ==
    {EmptyDict}
    \cup {[s \in {FlaskSheet} |-> FirstStocksFlask(n, tp)] : n \in {1, 2}, tp \in TargetChoices}

\* a cell of the 'target price' column: a number float() accepts (in
\* thousandths), or text it rejects with ValueError (app.py:81-84)
NumberCell(n) == [numeric |-> TRUE, value |-> n]

TextCell == [numeric |-> FALSE, value |-> 0]

RawRow(name, cell) == [name |-> name, target |-> cell]

\* sheets of rows: good rows, and rows with an empty name, a text target or a
\* target of 0
RawSheets(tp) ==
    {<<>>,
     <<RawRow(ScripNames[1], NumberCell(tp))>>,
     <<RawRow(ScripNames[1], NumberCell(tp)), RawRow(ScripNames[2], NumberCell(tp))>>,
     <<RawRow("", NumberCell(tp)), RawRow(ScripNames[1], NumberCell(tp)),
       RawRow(ScripNames[2], TextCell)>>,
     <<RawRow(ScripNames[1], NumberCell(tp)), RawRow(ScripNames[2], NumberCell(0))>>}

\* what the download of app.py:49-59 gives: it fails, or it is a sheet of rows
SheetDownloads ==
    {[ok |-> FALSE, rows |-> <<>>]}
    \cup {[ok |-> TRUE, rows |-> r] : r \in UNION {RawSheets(tp) : tp \in TargetChoices}}

\* app.py:77-84: the rows the loop does not skip: a name that is not empty and
\* a target float() converts
KeptRows(rows) == SelectSeq(rows, LAMBDA r : r.name # "" /\ r.target.numeric)

\* app.py:75-93: the stocks built from the rows of one sheet
ParsedStocks(rows) ==
    [k \in DOMAIN KeptRows(rows) |->
        NewStockFlask(KeptRows(rows)[k].name, KeptRows(rows)[k].target.value)]

\* what the text of a provider exception says: a network timeout (transient),
\* or yfinance's "possibly delisted" (symbol not found)
FetchErrors == {"timeout", "delisted"}

\* what ticker.history (views.py:171) returns, or that it raises
ProviderResponses ==
    {[raises |-> TRUE, error |-> e, Close |-> <<>>] : e \in FetchErrors}
    \cup {[raises |-> FALSE, error |-> "", Close |-> h] : h \in SeqsUpTo(Closes, MaxCandles)}

\* what app.py's sources give for one symbol: `failed` of the two suffixes
\* (.NS, .BO; lines 114-143) raised or had neither a quote nor candles; the
\* first that answered had the quote `info` (lines 123-132; 0: none) or else
\* the candles Close (lines 135-139); when both failed, fetch_from_nse_api
\* (lines 152-200) gives the price `fallback` (0: all its sources failed)
FlaskResponses ==
    {[failed |-> f, info |-> q, Close |-> <<>>, fallback |-> 0] : f \in {0, 1}, q \in Closes}
    \cup {[failed |-> f, info |-> 0, Close |-> h, fallback |-> 0] :
             f \in {0, 1}, h \in SeqsUpTo(Closes, MaxCandles) \ {<<>>}}
    \cup {[failed |-> 2, info |-> 0, Close |-> <<>>, fallback |-> q] : q \in {0} \cup Closes}

\* ------------------------------------------------------------------ state
VARIABLES
    app,               \* "django" (alerts/views.py) or "flask" (app.py)
    watchlists,        \* views.py:22 / app.py:27
    target_hit_logged, \* views.py:23 / app.py:28
    LOG_FILE,          \* rows appended to the hit log (views.py:42 / app.py:18)
    pc,                \* each request thread's position
    sheets_to_update,  \* fetch_stock_prices: sheets still to visit
    current_sheet,     \* fetch_stock_prices: sheet being processed
    stocks,            \* fetch_stock_prices: the list read at line 277
    i,                 \* fetch_stock_prices: start index of the batch
    updated_stocks,    \* fetch_stock_prices: results gathered so far
    futures,           \* process_stock_batch: future_to_stock
    batch_results,     \* process_stock_batch: its updated_stocks
    response,          \* what the call gave its caller
    \* history variables
    trail,             \* per (sheet, scrip): what each fetch since the last reload did
    epoch_start,       \* Len(LOG_FILE) at the last reload
    pending_at_deadline, \* futures unfinished when as_completed timed out
    overran,           \* futures whose task ran for more than 20 seconds
    fetches,           \* fetch tasks planned so far
    reloads,           \* reloads so far
    now,               \* the clock reading of the trigger's turn (app.py:239, tasks.py:21)
    loaded             \* history: the store as the last load built it

shared == <<watchlists, target_hit_logged, LOG_FILE>>
frame == <<sheets_to_update, current_sheet, stocks, i, updated_stocks>>
poolv == <<futures, batch_results, pending_at_deadline, overran>>
ghost == <<trail, epoch_start>>
vars == <<app, watchlists, target_hit_logged, LOG_FILE, pc, sheets_to_update,
          current_sheet, stocks, i, updated_stocks, futures, batch_results,
          response, trail, epoch_start, pending_at_deadline, overran, fetches, reloads,
          now, loaded>>

IdleLocals ==
    /\ pc = [t \in Threads |-> "idle"]
    /\ sheets_to_update = [t \in Threads |-> <<>>]
    /\ current_sheet = [t \in Threads |-> NoSheet]
    /\ stocks = [t \in Threads |-> <<>>]
    /\ i = [t \in Threads |-> 0]
    /\ updated_stocks = [t \in Threads |-> <<>>]
    /\ futures = [t \in Threads |-> <<>>]
    /\ batch_results = [t \in Threads |-> <<>>]
    /\ response = [t \in Threads |-> "none"]
    /\ now = NoTime
    /\ pending_at_deadline = [t \in Threads |-> {}]
    /\ overran = [t \in Threads |-> {}]

InitShared(a, w, flags) ==
    /\ app = a
    /\ watchlists = w
    /\ loaded = w
    /\ target_hit_logged = flags
    /\ LOG_FILE = <<>>
    /\ trail = EmptyDict
    /\ epoch_start = 0
    /\ fetches = 0
    /\ reloads = 0

Init ==
    /\ IdleLocals
    /\ \/ \E w \in DjangoStores : InitShared("django", w, EmptyDict)
       \/ \E w \in FlaskStores : InitShared("flask", w, FreshFlags(w))

\* ------------------------------------------------------------ helpers
\* list(watchlists.keys()): dict order is the order the tabs were loaded in
KeyOrder == SHEET_TABS \o <<FlaskSheet>>

KeysOf(w) == SelectSeq(KeyOrder, LAMBDA s : s \in DOMAIN w)

RECURSIVE Planned(_, _)
\* fetch tasks a pass over the sheets `todo` of store w submits: a sheet of more
\* than BATCH_SIZE entries ends the pass after its first batch (views.py:305)
Planned(w, todo) ==
    IF todo = <<>> THEN 0
    ELSE IF Head(todo) \notin DOMAIN w THEN Planned(w, Tail(todo))
    ELSE IF Len(w[Head(todo)]) > BATCH_SIZE THEN BATCH_SIZE
    ELSE Len(w[Head(todo)]) + Planned(w, Tail(todo))

TrailOf(tr, s, n) == IF <<s, n>> \in DOMAIN tr THEN tr[<<s, n>>] ELSE <<>>

TrailAdd(tr, s, n, ev) == Put(tr, <<s, n>>, Append(TrailOf(tr, s, n), ev))

\* rows of the hit log for one (sheet, scrip)
RowsOf(log, s, n) == SelectSeq(log, LAMBDA r : r.sheet_name = s /\ r.scrip_name = n)

\* the value of target_hit_logged[s][n], False when absent
Flag(flags, s, n) ==
    /\ s \in DOMAIN flags
    /\ n \in DOMAIN flags[s]
    /\ flags[s][n]

Running(fs) == {k \in DOMAIN fs : fs[k].st \in {"running", "logging"}}

Queued(fs) == {k \in DOMAIN fs : fs[k].st = "queued"}

Unfinished(fs) == {k \in DOMAIN fs : fs[k].st # "finished"}

\* ------------------------------------------------ fetch_single_stock_price
\* views.py:173-180: the price taken from the candles (hist not empty)
SelectPrice(Close) ==
    IF Len(Close) >= 2 THEN Round2(Close[Len(Close) - 1]) ELSE Round2(Close[Len(Close)])

\* HitCheck that writes the fetched price over the target of an entry below it
HitCheck_TargetOverwritten(stock, sheet_name, flags) ==
    IF stock.current_price >= stock.target_price
    THEN LET f1 == IF sheet_name \in DOMAIN flags THEN flags
                   ELSE Put(flags, sheet_name, EmptyDict)
             f2 == IF stock.scrip_name \in DOMAIN f1[sheet_name] THEN f1
                   ELSE Put(f1, sheet_name, Put(f1[sheet_name], stock.scrip_name, FALSE))
         IN  [stock |-> [stock EXCEPT !.status = "Target Hit!"],
              flags |-> f2,
              log |-> ~f2[sheet_name][stock.scrip_name]]
    ELSE [stock |-> [stock EXCEPT !.status = "Below Target",
                                  !.target_price = stock.current_price],
          flags |-> flags, log |-> FALSE]

\* HitCheck with an else branch (line 207) that re-arms the flag
HitCheck_Rearm(stock, sheet_name, flags) ==
    IF stock.current_price >= stock.target_price
    THEN LET f1 == IF sheet_name \in DOMAIN flags THEN flags
                   ELSE Put(flags, sheet_name, EmptyDict)
             f2 == IF stock.scrip_name \in DOMAIN f1[sheet_name] THEN f1
                   ELSE Put(f1, sheet_name, Put(f1[sheet_name], stock.scrip_name, FALSE))
         IN  [stock |-> [stock EXCEPT !.status = "Target Hit!"],
              flags |-> f2,
              log |-> ~f2[sheet_name][stock.scrip_name]]
    ELSE [stock |-> [stock EXCEPT !.status = "Below Target"],
          flags |-> IF Flag(flags, sheet_name, stock.scrip_name)
                    THEN Put(flags, sheet_name,
                             Put(flags[sheet_name], stock.scrip_name, FALSE))
                    ELSE flags,
          log |-> FALSE]

\* HitCheck without the test of line 190: the flag is created anew on every hit
HitCheck_InitAlways(stock, sheet_name, flags) ==
    IF stock.current_price >= stock.target_price
    THEN LET f1 == IF sheet_name \in DOMAIN flags THEN flags
                   ELSE Put(flags, sheet_name, EmptyDict)
             f2 == Put(f1, sheet_name, Put(f1[sheet_name], stock.scrip_name, FALSE))
         IN  [stock |-> [stock EXCEPT !.status = "Target Hit!"],
              flags |-> f2,
              log |-> ~f2[sheet_name][stock.scrip_name]]
    ELSE [stock |-> [stock EXCEPT !.status = "Below Target"], flags |-> flags, log |-> FALSE]

\* views.py:183-194 and 207-208: status, lazy creation of the flag, and whether
\* log_target_hit is to be called
HitCheck(stock, sheet_name, flags) ==
    IF stock.current_price >= stock.target_price
    THEN LET f1 == IF sheet_name \in DOMAIN flags THEN flags
                   ELSE Put(flags, sheet_name, EmptyDict)
             f2 == IF stock.scrip_name \in DOMAIN f1[sheet_name] THEN f1
                   ELSE Put(f1, sheet_name, Put(f1[sheet_name], stock.scrip_name, FALSE))
         IN  [stock |-> [stock EXCEPT !.status = "Target Hit!"],
              flags |-> f2,
              log |-> ~f2[sheet_name][stock.scrip_name]]
    ELSE [stock |-> [stock EXCEPT !.status = "Below Target"], flags |-> flags, log |-> FALSE]

\* views.py:80-102: the row log_target_hit writes (date and time left out)
LogRow(sheet_name, stock) ==
    [sheet_name |-> sheet_name, scrip_name |-> stock.scrip_name,
     target_price |-> stock.target_price, hit_price |-> stock.current_price]

\* views.py:202: target_hit_logged[sheet_name][scrip_name] = True; the KeyError
\* of a sheet that is no longer a key is caught at line 204
SetLogged(flags, sheet_name, scrip_name) ==
    IF sheet_name \in DOMAIN flags
    THEN Put(flags, sheet_name, Put(flags[sheet_name], scrip_name, TRUE))
    ELSE flags

\* ---------------------------------------------------- fetch_stock_prices
\* views.py:265-270: the call, with sheet_name or without
fetch_stock_prices(t, sheet_name) ==
    /\ app = "django"
    /\ pc[t] = "idle"
    /\ LET todo == IF sheet_name # NoSheet THEN <<sheet_name>> ELSE KeysOf(watchlists)
       IN  /\ fetches + Planned(watchlists, todo) <= MaxFetches
           /\ fetches' = fetches + Planned(watchlists, todo)
           /\ sheets_to_update' = [sheets_to_update EXCEPT ![t] = todo]
    /\ pc' = [pc EXCEPT ![t] = "fsp_sheets"]
    /\ UNCHANGED <<app, now, loaded, shared, current_sheet, stocks, i, updated_stocks, poolv,
                   response, ghost, reloads>>

\* views.py:272-287 and 315: the head of the loop over the sheets
fsp_next_sheet(t) ==
    /\ app = "django"
    /\ pc[t] = "fsp_sheets"
    /\ IF sheets_to_update[t] = <<>>
       THEN /\ pc' = [pc EXCEPT ![t] = "done"]
            /\ response' = [response EXCEPT ![t] = "returned"]
            /\ UNCHANGED frame
       ELSE LET cs == Head(sheets_to_update[t])
            IN  IF cs \notin DOMAIN watchlists \/ Len(watchlists[cs]) = 0
                THEN /\ sheets_to_update' = [sheets_to_update EXCEPT ![t] = Tail(@)]
                     /\ UNCHANGED <<pc, response, current_sheet, stocks, i, updated_stocks>>
                ELSE /\ current_sheet' = [current_sheet EXCEPT ![t] = cs]
                     /\ stocks' = [stocks EXCEPT ![t] = watchlists[cs]]
                     /\ i' = [i EXCEPT ![t] = 0]
                     /\ updated_stocks' = [updated_stocks EXCEPT ![t] = <<>>]
                     /\ pc' = [pc EXCEPT ![t] = "fsp_batch"]
                     /\ UNCHANGED <<response, sheets_to_update>>
    /\ UNCHANGED <<app, now, loaded, shared, poolv, ghost, fetches, reloads>>

\* ---------------------------------------------------- process_stock_batch
\* views.py:293 and 226-238: the slice, and one submit per stock of the batch
psb_submit(t) ==
    /\ app = "django"
    /\ pc[t] = "fsp_batch"
    /\ LET batch == SubSeq(stocks[t], i[t] + 1, Min(i[t] + BATCH_SIZE, Len(stocks[t])))
       IN  futures' = [futures EXCEPT ![t] =
                [k \in DOMAIN batch |->
                    [orig |-> batch[k], stock |-> batch[k], st |-> "queued",
                     attempts |-> 0, error |-> ""]]]
    /\ batch_results' = [batch_results EXCEPT ![t] = <<>>]
    /\ pending_at_deadline' = [pending_at_deadline EXCEPT ![t] = {}]
    /\ overran' = [overran EXCEPT ![t] = {}]
    /\ pc' = [pc EXCEPT ![t] = "psb_collect"]
    /\ UNCHANGED <<app, now, loaded, shared, frame, response, ghost, fetches, reloads>>

\* ThreadPoolExecutor(max_workers=MAX_WORKERS), views.py:230: a free worker takes
\* the oldest queued work item
task_start(t, k) ==
    /\ k \in Queued(futures[t])
    /\ \A j \in Queued(futures[t]) : k <= j
    /\ Cardinality(Running(futures[t])) < MAX_WORKERS
    /\ futures' = [futures EXCEPT ![t][k].st = "running"]
    /\ UNCHANGED <<app, now, loaded, shared, pc, frame, batch_results, pending_at_deadline,
                   overran, response, ghost, fetches, reloads>>

\* The task returns `stock` (views.py:221). While the caller is in the loop of
\* views.py:238-241 as_completed hands the finished future over and
\* future.result(timeout=20), asked of a finished future, returns at once: the
\* result joins updated_stocks in the order of completion. (A task never raises,
\* line 216, so lines 242-259 never run.) After a TimeoutError nobody collects.
Complete(fs, t, k, stock) ==
    /\ futures' = [fs EXCEPT ![t][k].stock = stock, ![t][k].st = "finished"]
    /\ batch_results' = [batch_results EXCEPT ![t] =
                            IF pc[t] = "psb_collect" THEN Append(@, stock) ELSE @]

\* views.py:216-219: the except branch of fetch_single_stock_price
OnFetchError_ByMessage(stock, error) ==
    [stock EXCEPT !.current_price = 0,
                  !.status = IF error = "timeout" THEN "Timeout"
                             ELSE IF error = "delisted" THEN "Delisted" ELSE "Error"]

\* views.py:216-219: the except branch of fetch_single_stock_price
OnFetchError(stock, error) == [stock EXCEPT !.current_price = 0, !.status = "Error"]

\* task_fetch with up to three provider calls: a timeout is followed by
\* another call
task_fetch_Retry(t, k, resp) ==
    IF /\ k \in DOMAIN futures[t]
       /\ futures[t][k].st = "running"
       /\ resp.raises
       /\ resp.error = "timeout"
       /\ futures[t][k].attempts < 2
    THEN /\ futures' = [futures EXCEPT ![t][k].attempts = @ + 1, ![t][k].error = resp.error]
         /\ UNCHANGED <<app, now, loaded, shared, pc, frame, batch_results,
                        pending_at_deadline, overran, response, ghost, fetches, reloads>>
    ELSE
         /\ k \in DOMAIN futures[t]
         /\ futures[t][k].st = "running"
         /\ LET stock == futures[t][k].stock
                sheet_name == current_sheet[t]
                called == [futures EXCEPT ![t][k].attempts = @ + 1, ![t][k].error = resp.error]
            IN  IF resp.raises
                THEN /\ Complete(called, t, k, OnFetchError(stock, resp.error))
                     /\ UNCHANGED <<target_hit_logged, trail>>
                ELSE IF resp.Close = <<>>
                THEN /\ Complete(called, t, k, [stock EXCEPT !.current_price = 0, !.status = "No Data"])
                     /\ UNCHANGED <<target_hit_logged, trail>>
                ELSE LET priced == [stock EXCEPT !.current_price = SelectPrice(resp.Close)]
                         hc == HitCheck(priced, sheet_name, target_hit_logged)
                         hit == hc.stock.status = "Target Hit!"
                     IN  /\ IF hc.log
                            THEN /\ futures' = [called EXCEPT ![t][k].stock = hc.stock,
                                                              ![t][k].st = "logging"]
                                 /\ UNCHANGED batch_results
                            ELSE Complete(called, t, k, hc.stock)
                         /\ target_hit_logged' = hc.flags
                         /\ trail' = IF hc.log THEN trail
                                     ELSE TrailAdd(trail, sheet_name, stock.scrip_name,
                                                   IF hit THEN "suppressed" ELSE "below")
         /\ UNCHANGED <<app, now, loaded, watchlists, LOG_FILE, pc, frame, pending_at_deadline,
                        overran, response, epoch_start, fetches, reloads>>

\* views.py:166-194 and 207-221: the one provider call and what follows it, up
\* to the call of log_target_hit
task_fetch(t, k, resp) ==
    /\ k \in DOMAIN futures[t]
    /\ futures[t][k].st = "running"
    /\ LET stock == futures[t][k].stock
           sheet_name == current_sheet[t]
           called == [futures EXCEPT ![t][k].attempts = @ + 1, ![t][k].error = resp.error]
       IN  IF resp.raises
           THEN /\ Complete(called, t, k, OnFetchError(stock, resp.error))
                /\ UNCHANGED <<target_hit_logged, trail>>
           ELSE IF resp.Close = <<>>
           THEN /\ Complete(called, t, k, [stock EXCEPT !.current_price = 0, !.status = "No Data"])
                /\ UNCHANGED <<target_hit_logged, trail>>
           ELSE LET priced == [stock EXCEPT !.current_price = SelectPrice(resp.Close)]
                    hc == HitCheck(priced, sheet_name, target_hit_logged)
                    hit == hc.stock.status = "Target Hit!"
                IN  /\ IF hc.log
                       THEN /\ futures' = [called EXCEPT ![t][k].stock = hc.stock,
                                                         ![t][k].st = "logging"]
                            /\ UNCHANGED batch_results
                       ELSE Complete(called, t, k, hc.stock)
                    /\ target_hit_logged' = hc.flags
                    /\ trail' = IF hc.log THEN trail
                                ELSE TrailAdd(trail, sheet_name, stock.scrip_name,
                                              IF hit THEN "suppressed" ELSE "below")
    /\ UNCHANGED <<app, now, loaded, watchlists, LOG_FILE, pc, frame, pending_at_deadline,
                   overran, response, epoch_start, fetches, reloads>>

\* views.py:195-206 with log_target_hit (80-102), whose own try swallows a failed
\* write: the append, or its failure, and then the flag
task_log(t, k, write_ok) ==
    /\ k \in DOMAIN futures[t]
    /\ futures[t][k].st = "logging"
    /\ LET stock == futures[t][k].stock
           sheet_name == current_sheet[t]
       IN  /\ LOG_FILE' = IF write_ok THEN Append(LOG_FILE, LogRow(sheet_name, stock))
                           ELSE LOG_FILE
           /\ target_hit_logged' = SetLogged(target_hit_logged, sheet_name, stock.scrip_name)
           /\ trail' = TrailAdd(trail, sheet_name, stock.scrip_name,
                                IF write_ok THEN "appended" ELSE "append_failed")
           /\ Complete(futures, t, k, stock)
    /\ UNCHANGED <<app, now, loaded, watchlists, pc, frame, pending_at_deadline,
                   overran, response, epoch_start, fetches, reloads>>

\* views.py:240: 20 seconds go by and the task is still in
\* fetch_single_stock_price; nothing in the code watches a running task
task_overrun(t, k) ==
    /\ k \in Running(futures[t])
    /\ k \notin overran[t]
    /\ overran' = [overran EXCEPT ![t] = @ \cup {k}]
    /\ UNCHANGED <<app, now, loaded, shared, pc, frame, futures, batch_results, pending_at_deadline,
                   response, ghost, fetches, reloads>>

\* views.py:238: 60 seconds after the call of as_completed futures are still
\* pending: the for statement raises TimeoutError, outside the try of 239-259
psb_timeout(t) ==
    /\ pc[t] = "psb_collect"
    /\ Unfinished(futures[t]) # {}
    /\ pending_at_deadline' = [pending_at_deadline EXCEPT ![t] = Unfinished(futures[t])]
    /\ pc' = [pc EXCEPT ![t] = "psb_shutdown"]
    /\ UNCHANGED <<app, now, loaded, shared, frame, futures, batch_results, overran, response,
                   ghost, fetches, reloads>>

\* views.py:230: leaving the with block is executor.shutdown(wait=True), which
\* waits for every submitted task; then the TimeoutError leaves
\* process_stock_batch and fetch_stock_prices (neither catches it)
psb_exit_raise(t) ==
    /\ pc[t] = "psb_shutdown"
    /\ Unfinished(futures[t]) = {}
    /\ pc' = [pc EXCEPT ![t] = "done"]
    /\ response' = [response EXCEPT ![t] = "raised TimeoutError"]
    /\ UNCHANGED <<app, now, loaded, shared, frame, poolv, ghost, fetches, reloads>>

\* views.py:261-262 and 299-308: the batch returns; a further batch means
\* time.sleep (line 305), a NameError; the last batch means the write-back
psb_return(t) ==
    /\ pc[t] = "psb_collect"
    /\ Unfinished(futures[t]) = {}
    /\ updated_stocks' = [updated_stocks EXCEPT ![t] = @ \o batch_results[t]]
    /\ IF i[t] + BATCH_SIZE < Len(stocks[t])
       THEN /\ pc' = [pc EXCEPT ![t] = "done"]
            /\ response' = [response EXCEPT ![t] = "raised NameError"]
            /\ UNCHANGED <<watchlists, sheets_to_update>>
       ELSE /\ watchlists' = Put(watchlists, current_sheet[t], updated_stocks'[t])
            /\ sheets_to_update' = [sheets_to_update EXCEPT ![t] = Tail(@)]
            /\ pc' = [pc EXCEPT ![t] = "fsp_sheets"]
            /\ UNCHANGED response
    /\ UNCHANGED <<app, now, loaded, target_hit_logged, LOG_FILE, current_sheet, stocks, i, poolv,
                   ghost, fetches, reloads>>

\* the call is over: its locals are gone
thread_exit(t) ==
    /\ pc[t] = "done"
    /\ pc' = [pc EXCEPT ![t] = "idle"]
    /\ sheets_to_update' = [sheets_to_update EXCEPT ![t] = <<>>]
    /\ current_sheet' = [current_sheet EXCEPT ![t] = NoSheet]
    /\ stocks' = [stocks EXCEPT ![t] = <<>>]
    /\ i' = [i EXCEPT ![t] = 0]
    /\ updated_stocks' = [updated_stocks EXCEPT ![t] = <<>>]
    /\ futures' = [futures EXCEPT ![t] = <<>>]
    /\ batch_results' = [batch_results EXCEPT ![t] = <<>>]
    /\ pending_at_deadline' = [pending_at_deadline EXCEPT ![t] = {}]
    /\ overran' = [overran EXCEPT ![t] = {}]
    /\ response' = [response EXCEPT ![t] = "none"]
    /\ now' = NoTime
    /\ UNCHANGED <<app, loaded, shared, ghost, fetches, reloads>>

\* ------------------------------------------------------ views of views.py
\* tasks.py:43-51: the times CronTrigger fires the job at
CronTrigger(ts) ==
    /\ ts.weekday \in 0..4
    /\ ts.hour \in 9..15
    /\ ts.minute \in {15, 30, 45, 0}
    /\ ts.second = 15

\* tasks.py:20-41: the job, fired at ts; within market hours it posts to
\* refresh-all-prices (line 31), whose view runs next
scheduled_job(t, ts) ==
    /\ app = "django"
    /\ pc[t] = "idle"
    /\ CronTrigger(ts)
    /\ now' = ts
    /\ pc' = [pc EXCEPT ![t] =
                IF 9 * 3600 + 15 * 60 <= ts.hour * 3600 + ts.minute * 60 + ts.second
                   /\ ts.hour * 3600 + ts.minute * 60 + ts.second <= 15 * 3600 + 30 * 60
                THEN "sj_post" ELSE "done"]
    /\ UNCHANGED <<app, loaded, shared, frame, poolv, response, ghost, fetches, reloads>>

\* views.py:373-403: start_time = time.time() (line 377) raises NameError inside
\* the try; the handler of line 400 answers HttpResponseBadRequest
refresh_all_prices(t) ==
    /\ app = "django"
    /\ pc[t] \in {"idle", "sj_post"}
    /\ pc' = [pc EXCEPT ![t] = "done"]
    /\ response' = [response EXCEPT ![t] = "HttpResponseBadRequest"]
    /\ UNCHANGED <<app, now, loaded, shared, frame, poolv, ghost, fetches, reloads>>

\* views.py:407-471: start_time = time.time() (line 413) raises NameError inside
\* the try; the handler of line 468 answers HttpResponseBadRequest
refresh_tab_prices(t, tab_name) ==
    /\ app = "django"
    /\ pc[t] = "idle"
    /\ tab_name \in STRING
    /\ pc' = [pc EXCEPT ![t] = "done"]
    /\ response' = [response EXCEPT ![t] = "HttpResponseBadRequest"]
    /\ UNCHANGED <<app, now, loaded, shared, frame, poolv, ghost, fetches, reloads>>

\* views.py:106-158: fetch_sheet; every tab raises NameError at line 118 (`resp`),
\* is caught at line 151 and loaded as [] (line 154); line 148 is not reached
fetch_sheet == [s \in Range(SHEET_TABS) |-> <<>>]

\* views.py:345-351: the reload clears both dicts
refresh_sheet(t) ==
    /\ app = "django"
    /\ pc[t] = "idle"
    /\ reloads < MaxReloads
    /\ reloads' = reloads + 1
    /\ watchlists' = EmptyDict
    /\ target_hit_logged' = EmptyDict
    /\ trail' = EmptyDict
    /\ epoch_start' = Len(LOG_FILE)
    /\ pc' = [pc EXCEPT ![t] = "rs_fetch"]
    /\ UNCHANGED <<app, now, loaded, LOG_FILE, frame, poolv, response, fetches>>

\* views.py:353-364: fetch_sheet() rebinds watchlists (line 156); the answer
refresh_sheet_load(t) ==
    /\ pc[t] = "rs_fetch"
    /\ watchlists' = fetch_sheet
    /\ loaded' = fetch_sheet
    /\ pc' = [pc EXCEPT ![t] = "done"]
    /\ response' = [response EXCEPT ![t] = "JsonResponse"]
    /\ UNCHANGED <<app, now, target_hit_logged, LOG_FILE, frame, poolv, ghost, fetches, reloads>>

\* views.py:324-341: the reader; an empty store is loaded first
get_watchlists(t) ==
    /\ app = "django"
    /\ pc[t] = "idle"
    /\ watchlists' = IF DOMAIN watchlists = {} THEN fetch_sheet ELSE watchlists
    /\ loaded' = IF DOMAIN watchlists = {} THEN fetch_sheet ELSE loaded
    /\ pc' = [pc EXCEPT ![t] = "done"]
    /\ response' = [response EXCEPT ![t] = "JsonResponse"]
    /\ UNCHANGED <<app, now, target_hit_logged, LOG_FILE, frame, poolv, ghost, fetches, reloads>>

\* ------------------------------------------------------------------ app.py
\* app.py:105-150: fetch_stock_price: the quote, else the LAST candle's close, of
\* the first suffix that answers, else what fetch_from_nse_api returns (a
\* price, or 0.0 when every source failed, line 200); rounded (round(price, 2))
fetch_stock_price(prov) ==
    IF prov.failed < 2
    THEN IF prov.info # 0 THEN Round2(prov.info)
         ELSE Round2(prov.Close[Len(prov.Close)])
    ELSE IF prov.fallback # 0 THEN Round2(prov.fallback) ELSE 0

\* seconds since midnight of a clock reading
TimeOfDay(ts) == ts.hour * 3600 + ts.minute * 60 + ts.second

\* should_run without its weekday test
should_run_NoWeekday(ts) ==
    /\ 9 * 3600 + 15 * 60 <= TimeOfDay(ts)
    /\ TimeOfDay(ts) <= 15 * 3600 + 30 * 60
    /\ ts.minute \in {1, 16, 31, 46}

\* app.py:241-250: should_run of background_monitor
should_run(ts) ==
    /\ ts.weekday < 5
    /\ 9 * 3600 + 15 * 60 <= TimeOfDay(ts)
    /\ TimeOfDay(ts) <= 15 * 3600 + 30 * 60
    /\ ts.minute \in {1, 16, 31, 46}

\* clock readings (weekday 0 is Monday): Wednesdays around both ends of the
\* market hours, at and off the minutes and the second the triggers use, and
\* Saturdays
NowChoices ==
    {[weekday |-> 2, hour |-> 9, minute |-> 0, second |-> 15],
     [weekday |-> 2, hour |-> 9, minute |-> 1, second |-> 30],
     [weekday |-> 2, hour |-> 9, minute |-> 15, second |-> 0],
     [weekday |-> 2, hour |-> 9, minute |-> 15, second |-> 15],
     [weekday |-> 2, hour |-> 9, minute |-> 16, second |-> 0],
     [weekday |-> 2, hour |-> 15, minute |-> 30, second |-> 1],
     [weekday |-> 2, hour |-> 15, minute |-> 30, second |-> 15],
     [weekday |-> 2, hour |-> 15, minute |-> 31, second |-> 0],
     [weekday |-> 5, hour |-> 10, minute |-> 0, second |-> 0],
     [weekday |-> 5, hour |-> 10, minute |-> 1, second |-> 0],
     [weekday |-> 5, hour |-> 10, minute |-> 15, second |-> 15]}

\* FlaskTodo without the test of line 283: every sheet is refreshed
FlaskTodo_EverySheet(w, sheet) == KeysOf(w)

\* the sheets the loop of app.py:282-284 (254) does not skip
FlaskTodo(w, sheet) == SelectSeq(KeysOf(w), LAMBDA s : sheet = NoSheet \/ s = sheet)

\* app.py:279-284: /refresh, with ?sheet= or without
refresh(t, sheet) ==
    /\ app = "flask"
    /\ pc[t] = "idle"
    /\ fetches + Planned(watchlists, FlaskTodo(watchlists, sheet)) <= MaxFetches
    /\ fetches' = fetches + Planned(watchlists, FlaskTodo(watchlists, sheet))
    /\ sheets_to_update' = [sheets_to_update EXCEPT ![t] = FlaskTodo(watchlists, sheet)]
    /\ i' = [i EXCEPT ![t] = 0]
    /\ pc' = [pc EXCEPT ![t] = "fl_refresh"]
    /\ UNCHANGED <<app, now, loaded, shared, current_sheet, stocks, updated_stocks, poolv, response,
                   ghost, reloads>>

\* app.py:238-269: one turn of the monitor loop, the clock reading ts
background_monitor(t, ts) ==
    /\ app = "flask"
    /\ pc[t] = "idle"
    /\ now' = ts
    /\ IF should_run(ts)
       THEN /\ fetches + Planned(watchlists, KeysOf(watchlists)) <= MaxFetches
            /\ fetches' = fetches + Planned(watchlists, KeysOf(watchlists))
            /\ sheets_to_update' = [sheets_to_update EXCEPT ![t] = KeysOf(watchlists)]
            /\ i' = [i EXCEPT ![t] = 0]
            /\ pc' = [pc EXCEPT ![t] = "fl_monitor"]
       ELSE /\ pc' = [pc EXCEPT ![t] = "done"]
            /\ UNCHANGED <<fetches, sheets_to_update, i>>
    /\ UNCHANGED <<app, loaded, shared, current_sheet, stocks, updated_stocks, poolv, response,
                   ghost, reloads>>

\* app.py:202-208: check_and_log_target_hit, with log_target_hit (210-234), whose
\* own try swallows a failed write. The status string is the one of line 207
\* without its emoji.
check_and_log_target_hit(sheet_name, scrip, target, current, flags, log, write_ok) ==
    IF current >= target
    THEN [status |-> "Target Hit!",
          flags |-> Put(flags, sheet_name, Put(flags[sheet_name], scrip, TRUE)),
          log |-> IF ~flags[sheet_name][scrip] /\ write_ok
                  THEN Append(log, [sheet_name |-> sheet_name, scrip_name |-> scrip,
                                    target_price |-> target, hit_price |-> current])
                  ELSE log,
          ev |-> IF flags[sheet_name][scrip] THEN "suppressed"
                 ELSE IF write_ok THEN "appended" ELSE "append_failed"]
    ELSE [status |-> "Below Target", flags |-> flags, log |-> log, ev |-> "below"]

\* app.py:285-296 (255-266): one stock of the loop, or its end (line 297, 267)
fl_step(t, prov, write_ok) ==
    /\ pc[t] \in {"fl_refresh", "fl_monitor"}
    /\ IF sheets_to_update[t] = <<>>
       THEN /\ pc' = [pc EXCEPT ![t] = "done"]
            /\ response' = [response EXCEPT ![t] =
                                IF pc[t] = "fl_refresh" THEN "204" ELSE "none"]
            /\ UNCHANGED <<shared, sheets_to_update, i, trail>>
       ELSE LET cs == Head(sheets_to_update[t])
            IN  IF i[t] >= Len(watchlists[cs])
                THEN /\ sheets_to_update' = [sheets_to_update EXCEPT ![t] = Tail(@)]
                     /\ i' = [i EXCEPT ![t] = 0]
                     /\ UNCHANGED <<shared, pc, response, trail>>
                ELSE LET stock == watchlists[cs][i[t] + 1]
                         price == fetch_stock_price(prov)
                         r == check_and_log_target_hit(cs, stock.scrip_name,
                                  stock.target_price, price, target_hit_logged,
                                  LOG_FILE, write_ok)
                     IN  /\ watchlists' = [watchlists EXCEPT ![cs][i[t] + 1] =
                                 [stock EXCEPT !.current_price = price, !.status = r.status]]
                         /\ target_hit_logged' = r.flags
                         /\ LOG_FILE' = r.log
                         /\ trail' = TrailAdd(trail, cs, stock.scrip_name, r.ev)
                         /\ i' = [i EXCEPT ![t] = @ + 1]
                         /\ UNCHANGED <<pc, response, sheets_to_update>>
    /\ UNCHANGED <<app, now, loaded, current_sheet, stocks, updated_stocks, poolv, epoch_start,
                   fetches, reloads>>

\* app.py:299-301 and 38-42: /reload; load_watchlists first clears both dicts
load_watchlists(t) ==
    /\ app = "flask"
    /\ pc[t] = "idle"
    /\ reloads < MaxReloads
    /\ reloads' = reloads + 1
    /\ watchlists' = EmptyDict
    /\ target_hit_logged' = EmptyDict
    /\ trail' = EmptyDict
    /\ epoch_start' = Len(LOG_FILE)
    /\ pc' = [pc EXCEPT ![t] = "lw_load"]
    /\ UNCHANGED <<app, now, loaded, LOG_FILE, frame, poolv, response, fetches>>

\* app.py:44-103 and 302: the sheet is downloaded and its rows are stored: a
\* failed download leaves both dicts cleared (line 102); else the sheet's flags
\* are created (lines 76, 94) and the sheet is stored when it has stocks (96-97)
load_watchlists_read(t, sheet) ==
    /\ pc[t] = "lw_load"
    /\ LET built == IF sheet.ok /\ ParsedStocks(sheet.rows) # <<>>
                    THEN [s \in {FlaskSheet} |-> ParsedStocks(sheet.rows)]
                    ELSE EmptyDict
       IN  /\ watchlists' = built
           /\ loaded' = built
           /\ target_hit_logged' =
                  IF sheet.ok
                  THEN [s \in {FlaskSheet} |->
                           [n \in {r.name : r \in Range(KeptRows(sheet.rows))} |-> FALSE]]
                  ELSE EmptyDict
    /\ pc' = [pc EXCEPT ![t] = "done"]
    /\ response' = [response EXCEPT ![t] = "204"]
    /\ UNCHANGED <<app, now, LOG_FILE, frame, poolv, ghost, fetches, reloads>>

\* --------------------------------------------------------- specifications
Sheets == Range(SHEET_TABS) \cup {UnknownTab, NoSheet}

Slots == 1..BATCH_SIZE

Pass(t) ==
    \/ \E s \in Sheets : fetch_stock_prices(t, s)
    \/ fsp_next_sheet(t)
    \/ psb_submit(t)
    \/ \E k \in Slots : task_start(t, k)
    \/ \E k \in Slots, resp \in ProviderResponses : task_fetch(t, k, resp)
    \/ \E k \in Slots, ok \in BOOLEAN : task_log(t, k, ok)
    \/ psb_timeout(t)
    \/ psb_exit_raise(t)
    \/ psb_return(t)
    \/ thread_exit(t)

Views(t) ==
    \/ \E ts \in NowChoices : scheduled_job(t, ts)
    \/ refresh_all_prices(t)
    \/ \E s \in Sheets \ {NoSheet} : refresh_tab_prices(t, s)
    \/ refresh_sheet(t)
    \/ refresh_sheet_load(t)
    \/ get_watchlists(t)

Flask(t) ==
    \/ \E s \in {FlaskSheet, UnknownTab, NoSheet} : refresh(t, s)
    \/ \E ts \in NowChoices : background_monitor(t, ts)
    \/ \E prov \in FlaskResponses, ok \in BOOLEAN : fl_step(t, prov, ok)
    \/ load_watchlists(t)
    \/ \E sheet \in SheetDownloads : load_watchlists_read(t, sheet)

\* one request at a time
Next == Pass("t1") \/ Views("t1") \/ Flask("t1")

Spec == Init /\ [][Next]_vars

\* A single pass of views.py over one tab, with the 20 seconds of line 240 told
InitTimed ==
    /\ IdleLocals
    /\ \E n \in {1, 2}, tp \in TargetChoices :
           InitShared("django", [s \in {"Intraday"} |-> FirstStocks(n, tp)], EmptyDict)

NextTimed == Pass("t1") \/ \E k \in Slots : task_overrun("t1", k)

SpecTimed == InitTimed /\ [][NextTimed]_vars

\* Requests of views.py that overlap: Django serves each request on its own
\* thread and fetch_stock_prices takes no lock
OverlapStores ==
    {[s \in {"Intraday"} |-> FirstStocks(1, tp)] : tp \in TargetChoices}
    \cup {[s \in {"Intraday", "FIBOST"} |->
              IF s = "Intraday" THEN FirstStocks(MAX_WORKERS, tp)
                                ELSE <<NewStock(ScripNames[MAX_WORKERS + 1], tp)>>] :
            tp \in TargetChoices}

InitOverlap ==
    /\ IdleLocals
    /\ \E w \in OverlapStores : InitShared("django", w, EmptyDict)

NextOverlap == \E t \in Threads : Pass(t)

SpecOverlap == InitOverlap /\ [][NextOverlap]_vars

\* A pass of views.py over one tab while another request reloads the sheet:
\* refresh_sheet takes no lock either
NextReload ==
    \/ Pass("t1")
    \/ refresh_sheet("t2")
    \/ refresh_sheet_load("t2")
    \/ thread_exit("t2")

SpecReload == InitTimed /\ [][NextReload]_vars

\* ------------------------------------------------------------------ claims
HitEvents == {"appended", "append_failed", "suppressed"}

AllHits(tr) == \A k \in DOMAIN tr : tr[k] \in HitEvents

\* rows of (s, n) appended since the last reload
NewRows(s, n) == RowsOf(SubSeq(LOG_FILE, epoch_start + 1, Len(LOG_FILE)), s, n)

\* a hit that was logged, a later fetch below target, a still later hit
ReCrossings(tr) ==
    {c \in DOMAIN tr : /\ tr[c] \in HitEvents
                       /\ \E a \in 1..c, b \in 1..c :
                              a < b /\ b < c /\ tr[a] = "appended" /\ tr[b] = "below"}

SameNames(out, inp) ==
    /\ Len(out) = Len(inp)
    /\ \A k \in DOMAIN inp :
          Cardinality({j \in DOMAIN out : out[j].scrip_name = inp[k].scrip_name}) = 1

\* C1: a pair that successive refresh cycles (no reload in between) found at
\* or above its target every time has exactly one row in the hit log: the first
\* hit cycle appended it, the later ones appended nothing.
C1_ExactlyOneRecord ==
    \A p \in DOMAIN trail : AllHits(trail[p]) => Len(NewRows(p[1], p[2])) = 1

\* C2: a sticky flag that is true implies a row of that pair in the hit log (a
\* failed append leaves the flag unset, so that the next cycle tries again).
C2_FlagImpliesRecord ==
    \A s \in DOMAIN target_hit_logged :
        \A n \in DOMAIN target_hit_logged[s] :
            target_hit_logged[s][n] => Len(RowsOf(LOG_FILE, s, n)) >= 1

\* C3 as claimed: when a pair was logged as a hit, then fetched below target,
\* then fetched at or above target again, a fresh row is appended at the
\* re-crossing.
C3_FreshRecordOnRecross ==
    \A p \in DOMAIN trail :
        ReCrossings(trail[p]) # {} => Len(NewRows(p[1], p[2])) >= 2

\* C3 as amended: at such a re-crossing nothing is appended (the flag set by the
\* first hit outlives the drop below target): the pair keeps its one row until
\* a reload resets the ledger.
C3_NoRecordOnRecross ==
    \A p \in DOMAIN trail :
        \A c \in ReCrossings(trail[p]) :
            /\ trail[p][c] = "suppressed"
            /\ Len(NewRows(p[1], p[2])) = 1

\* a pair logged, then below target, then at or above target again
C3_Witness == \E p \in DOMAIN trail : ReCrossings(trail[p]) # {}

\* C4: only a reload takes a sticky flag from true to false or absent; no step
\* of a refresh (fetch_stock_prices and its tasks, /refresh, the monitor) does.
C4_OnlyReloadClearsFlag ==
    [][(\E s \in DOMAIN target_hit_logged :
           \E n \in DOMAIN target_hit_logged[s] :
               target_hit_logged[s][n] /\ ~Flag(target_hit_logged', s, n))
       => reloads' = reloads + 1]_vars

\* a refresh found a pair below its target while the pair's flag was true, and
\* the flag is still true
C4_Witness ==
    \E p \in DOMAIN trail :
        /\ Flag(target_hit_logged, p[1], p[2])
        /\ trail[p][Len(trail[p])] = "below"

\* C5: when a pass over a watchlist is over, the list written back to the store
\* holds each input scrip_name exactly once (N entries), whatever the outcomes.
C5_BatchComplete ==
    \A t \in Threads :
        (pc[t] = "done" /\ stocks[t] # <<>>) =>
            /\ SameNames(updated_stocks[t], stocks[t])
            /\ current_sheet[t] \in DOMAIN watchlists
            /\ watchlists[current_sheet[t]] = updated_stocks[t]

\* C6: whatever happens to the entries of a (single-batch) watchlist, the pass
\* is not aborted: it ends by returning.
C6_FailureContained ==
    \A t \in Threads :
        (pc[t] = "done" /\ stocks[t] # <<>> /\ Len(stocks[t]) <= BATCH_SIZE) =>
            response[t] = "returned"

\* C7: no refresh operation of the control surface answers with a bare failure.
C7_StructuredResult == \A t \in Threads : response[t] # "HttpResponseBadRequest"

\* C8: when a pass whose batch deadline did not expire is over, every entry
\* whose task ran for more than the 20 seconds of the per-task timeout has
\* status Timeout in the output, and every sibling has its own result there.
C8_OverrunMarkedTimeout ==
    \A t \in Threads :
        (pc[t] = "done" /\ pending_at_deadline[t] = {} /\ overran[t] # {}) =>
            \A k \in DOMAIN futures[t] :
                IF k \in overran[t]
                THEN \E j \in DOMAIN updated_stocks[t] :
                        /\ updated_stocks[t][j].scrip_name = futures[t][k].orig.scrip_name
                        /\ updated_stocks[t][j].status = "Timeout"
                ELSE futures[t][k].stock \in Range(updated_stocks[t])

\* C9: when the batch deadline expired, every entry whose task was unfinished
\* is in the output with status Timeout, price 0 and its scrip_name, and every
\* entry whose task had completed has its fetched result there.
C9_DeadlineMarksTimeout ==
    \A t \in Threads :
        (pc[t] = "done" /\ pending_at_deadline[t] # {}) =>
            \A k \in DOMAIN futures[t] :
                IF k \in pending_at_deadline[t]
                THEN [futures[t][k].orig EXCEPT !.current_price = 0, !.status = "Timeout"]
                        \in Range(updated_stocks[t])
                ELSE futures[t][k].stock \in Range(updated_stocks[t])

\* C10: at most MAX_WORKERS fetch tasks execute at any instant.
C10_WorkerBound ==
    Cardinality({<<t, k>> \in Threads \X Slots : k \in Running(futures[t])}) <= MAX_WORKERS

\* between reading a watchlist's entries (views.py:277) and the write-back of
\* line 308 (or the end of the pass)
InFlight(t) == pc[t] \in {"fsp_batch", "psb_collect", "psb_shutdown"}

\* C11: no two refresh invocations are at the same time between reading the
\* entries of one watchlist and writing its results back.
C11_SingleFlight ==
    \A t \in Threads, u \in Threads :
        (t # u /\ InFlight(t) /\ InFlight(u)) => current_sheet[t] # current_sheet[u]

\* entries of a list that no refresh has touched since they were loaded
Untouched(l) == {k \in DOMAIN l : l[k].status \in {"Not Fetched", "Loading..."}}

\* C12: what a reader finds in the store is never half-updated: of the entries
\* of a watchlist (a single batch here) either none or all carry results of a
\* refresh.
C12_NoHalfUpdate ==
    \A s \in DOMAIN watchlists :
        Untouched(watchlists[s]) = {} \/ Untouched(watchlists[s]) = DOMAIN watchlists[s]

\* Monday..Friday, 09:15:00 to 15:30:00, both ends included
Eligible(ts) ==
    /\ ts.weekday \in 0..4
    /\ 9 * 3600 + 15 * 60 <= ts.hour * 3600 + ts.minute * 60 + ts.second
    /\ ts.hour * 3600 + ts.minute * 60 + ts.second <= 15 * 3600 + 30 * 60

\* the minutes at which the monitor loop of app.py acts (its cadence)
MonitorMinutes == {1, 16, 31, 46}

SelectedAsClaimed(Close, entry) ==
    IF Len(Close) >= 2 THEN entry.current_price = Round2(Close[Len(Close) - 1])
    ELSE IF Len(Close) = 1 THEN entry.current_price = Round2(Close[1])
    ELSE entry.status = "No Data" /\ entry.current_price = 0

\* the next fl_step of t fetches an entry of the sheet it is at (app.py:285-296)
FlAtEntry(t) ==
    /\ pc[t] \in {"fl_refresh", "fl_monitor"}
    /\ sheets_to_update[t] # <<>>
    /\ i[t] < Len(watchlists[Head(sheets_to_update[t])])

\* C14: whenever candles are what the provider answers with, the price taken is
\* the close of the second-to-last candle (2 or more candles) or of the only
\* candle (1), and with 0 candles the outcome is No Data with no price.
C14_SecondToLastClose ==
    [][/\ \A k \in Slots, resp \in ProviderResponses :
             (task_fetch("t1", k, resp) /\ ~resp.raises)
                 => SelectedAsClaimed(resp.Close, futures'["t1"][k].stock)
       /\ \A prov \in FlaskResponses, ok \in BOOLEAN :
             (FlAtEntry("t1") /\ fl_step("t1", prov, ok) /\ prov.info = 0 /\ prov.fallback = 0)
                 => SelectedAsClaimed(prov.Close,
                        watchlists'[Head(sheets_to_update["t1"])][i["t1"] + 1])]_vars

StatusEnum == {"Not Fetched", "Below Target", "Target Hit!", "No Data", "Timeout", "Error"}

\* C16: every entry a refresh pass has touched, in the store or in the results
\* a pass is gathering, has one of the six statuses (app.py's "Loading..." is
\* the status of entries no pass has touched yet).
C16_StatusInEnum ==
    /\ \A s \in DOMAIN watchlists : \A k \in DOMAIN watchlists[s] :
           \/ watchlists[s][k].status \in StatusEnum
           \/ /\ watchlists[s][k].status = "Loading..."
              /\ <<s, watchlists[s][k].scrip_name>> \notin DOMAIN trail
    /\ \A t \in Threads :
           \A e \in Range(updated_stocks[t]) \cup Range(batch_results[t]) :
               e.status \in StatusEnum

\* a pass wrote back an entry whose fetch raised, next to one it priced
C16_Witness ==
    \E s \in DOMAIN watchlists : \E k \in DOMAIN watchlists[s], j \in DOMAIN watchlists[s] :
        /\ watchlists[s][k].status = "Error"
        /\ watchlists[s][j].status \in {"Below Target", "Target Hit!"}

\* the statuses that say a price was compared with the target
PricedStatuses == {"Target Hit!", "Below Target"}

\* Target Hit goes with a price at or above the target, Below Target with one
\* from 0 to below the target
StatusMatchesPrice(e) ==
    /\ e.status = "Target Hit!" => e.current_price >= e.target_price
    /\ e.status = "Below Target" =>
           (0 <= e.current_price /\ e.current_price < e.target_price)

\* C17: after every step of a refresh every entry with status Target Hit has a
\* price at or above its target and every entry with status Below Target one
\* below it, and a fetch that failed or came back empty gives the entry
\* neither of the two statuses.
C17_StatusFollowsPrice ==
    [][/\ \A s \in DOMAIN watchlists' : \A k \in DOMAIN watchlists'[s] :
             StatusMatchesPrice(watchlists'[s][k])
       /\ \A k \in Slots, resp \in ProviderResponses :
             (task_fetch("t1", k, resp) /\ (resp.raises \/ resp.Close = <<>>))
                 => futures'["t1"][k].stock.status \notin PricedStatuses
       /\ \A prov \in FlaskResponses, ok \in BOOLEAN :
             (FlAtEntry("t1") /\ fl_step("t1", prov, ok)
                  /\ prov.failed = 2 /\ prov.fallback = 0)
                 => watchlists'[Head(sheets_to_update["t1"])][i["t1"] + 1].status
                        \notin PricedStatuses]_vars

\* what a refresh must leave alone in an entry
Identity(e) == <<e.scrip_name, e.yf_symbol, e.target_price>>

\* C18: every entry of the store, and every result a pass is gathering, has
\* the scrip_name, symbol and target_price of an entry of its watchlist as it
\* was loaded.
C18_OnlyPriceAndStatusChange ==
    /\ \A s \in DOMAIN watchlists :
           /\ s \in DOMAIN loaded
           /\ \A k \in DOMAIN watchlists[s] :
                  \E j \in DOMAIN loaded[s] : Identity(watchlists[s][k]) = Identity(loaded[s][j])
    /\ \A t \in Threads :
           \A e \in Range(updated_stocks[t])
                     \cup (IF pc[t] \in {"psb_collect", "psb_shutdown"}
                           THEN Range(batch_results[t]) ELSE {}) :
               \E j \in DOMAIN stocks[t] : Identity(e) = Identity(stocks[t][j])

\* the store holds an entry a refresh gave a price and a status
C18_Witness ==
    \E s \in DOMAIN watchlists : \E k \in DOMAIN watchlists[s] :
        /\ watchlists[s][k].current_price # 0
        /\ watchlists[s][k].status = "Below Target"
        /\ \E j \in DOMAIN loaded[s] :
               /\ Identity(watchlists[s][k]) = Identity(loaded[s][j])
               /\ watchlists[s][k] # loaded[s][j]

\* C19: a fetch that comes back with zero candles (and, in app.py, with no
\* price from any other source) leaves the entry with status No Data and
\* price 0 and leaves the ledger as it was: no row, no flag change.
C19_NoDataLeavesLedger ==
    [][/\ \A k \in Slots, resp \in ProviderResponses :
             (task_fetch("t1", k, resp) /\ ~resp.raises /\ resp.Close = <<>>)
                 => /\ futures'["t1"][k].stock.status = "No Data"
                    /\ futures'["t1"][k].stock.current_price = 0
                    /\ UNCHANGED <<target_hit_logged, LOG_FILE>>
       /\ \A prov \in FlaskResponses, ok \in BOOLEAN :
             (FlAtEntry("t1") /\ fl_step("t1", prov, ok)
                  /\ prov.failed = 2 /\ prov.fallback = 0)
                 => /\ watchlists'[Head(sheets_to_update["t1"])][i["t1"] + 1].status = "No Data"
                    /\ watchlists'[Head(sheets_to_update["t1"])][i["t1"] + 1].current_price = 0
                    /\ UNCHANGED <<target_hit_logged, LOG_FILE>>]_vars

\* C20: at every moment the store holds the complete mapping of a load, the
\* one before a reload that is under way or the one it builds: every watchlist
\* of it, with all its entries, never an empty or partly filled store.
C20_WholesaleReload ==
    /\ DOMAIN watchlists = DOMAIN loaded
    /\ \A s \in DOMAIN loaded : Len(watchlists[s]) = Len(loaded[s])

\* the rows of a sheet that are to be loaded: a name that is not empty and a
\* numeric target above 0
ValidRows(rows) ==
    SelectSeq(rows, LAMBDA r : r.name # "" /\ r.target.numeric /\ r.target.value > 0)

\* the entries the store holds for a sheet
EntriesOf(w, s) == IF s \in DOMAIN w THEN w[s] ELSE <<>>

\* C21: after any load or reload every entry of the store has a non-empty
\* scrip_name and a target_price above 0, and the entries loaded from a sheet
\* are those of its valid rows, all of them, in order: the other rows are
\* skipped.
C21_LoadKeepsValidRows ==
    [][/\ \A s \in DOMAIN watchlists' : \A k \in DOMAIN watchlists'[s] :
             /\ watchlists'[s][k].scrip_name # ""
             /\ watchlists'[s][k].target_price > 0
       /\ \A sheet \in SheetDownloads :
             (load_watchlists_read("t1", sheet) /\ sheet.ok)
                 => /\ Len(EntriesOf(watchlists', FlaskSheet)) = Len(ValidRows(sheet.rows))
                    /\ \A k \in DOMAIN ValidRows(sheet.rows) :
                           /\ EntriesOf(watchlists', FlaskSheet)[k].scrip_name
                                  = ValidRows(sheet.rows)[k].name
                           /\ EntriesOf(watchlists', FlaskSheet)[k].target_price
                                  = ValidRows(sheet.rows)[k].target.value]_vars

\* views.py:290: batch_num, the number of the batch that starts at index i
batch_num(t) == (i[t] \div BATCH_SIZE) + 1

\* views.py:291: total_batches of a watchlist of n entries, ceil(n / BATCH_SIZE)
total_batches(n) == (n + BATCH_SIZE - 1) \div BATCH_SIZE

\* C22: the batches of a watchlist run one after another with one pause
\* between each two of them: a pass over a watchlist of N entries, no batch
\* deadline expired, ends after its batch number ceil(N/B) was joined, and none
\* of the pauses before batches 2..ceil(N/B) ended the pass.
C22_BatchesInTurn ==
    \A t \in Threads :
        (pc[t] = "done" /\ stocks[t] # <<>> /\ pending_at_deadline[t] = {}) =>
            /\ batch_num(t) = total_batches(Len(stocks[t]))
            /\ response[t] # "raised NameError"

\* the batch deadline has expired and the caller is held at the end of the with
\* block (views.py:230) by tasks that have not finished
HeldByTasks(t) == pc[t] = "psb_shutdown" /\ Unfinished(futures[t]) # {}

\* C23: the join of a batch is over when all its tasks have completed or when
\* the batch deadline expires, whichever is first: once the deadline has
\* expired the caller does not wait for a task that has not completed, and the
\* pass goes on instead of being ended.
C23_JoinEndsAtDeadline ==
    \A t \in Threads :
        /\ ~HeldByTasks(t)
        /\ (pc[t] = "done" /\ pending_at_deadline[t] # {}) =>
               response[t] # "raised TimeoutError"

\* the quarter-hour firings from 09:15:15 to 15:30:15, Monday to Friday
QuarterHourCall(ts) ==
    /\ ts.weekday \in 0..4
    /\ 9 * 3600 + 15 * 60 + 15 <= TimeOfDay(ts)
    /\ TimeOfDay(ts) <= 15 * 3600 + 30 * 60 + 15

\* C24: the scheduled job calls the refresh endpoint at the firings of the cron
\* trigger from 09:15:15 to 15:30:15 of a weekday, both included, and at no
\* other firing.
C24_CallsEachQuarterHour ==
    [][\A ts \in NowChoices :
          scheduled_job("t1", ts) => (pc'["t1"] = "sj_post" <=> QuarterHourCall(ts))]_vars

\* every name a watchlist may go by
SheetNames == Range(KeyOrder) \cup {UnknownTab}

\* rows of the hit log for one sheet
RowsOfSheet(log, s) == SelectSeq(log, LAMBDA r : r.sheet_name = s)

\* a step leaves the entries, the flags and the rows of every watchlist outside
\* `touched` as they are
OthersSame(touched) ==
    \A s \in SheetNames \ touched :
        /\ EntriesOf(watchlists', s) = EntriesOf(watchlists, s)
        /\ (s \in DOMAIN watchlists') = (s \in DOMAIN watchlists)
        /\ (s \in DOMAIN target_hit_logged') = (s \in DOMAIN target_hit_logged)
        /\ s \in DOMAIN target_hit_logged => target_hit_logged'[s] = target_hit_logged[s]
        /\ RowsOfSheet(LOG_FILE', s) = RowsOfSheet(LOG_FILE, s)

\* a refresh pass is under way
InPass(t) ==
    pc[t] \in {"fsp_sheets", "fsp_batch", "psb_collect", "psb_shutdown", "fl_refresh", "fl_monitor"}

\* the watchlist a pass is at: the head of the sheets it has yet to finish,
\* when the store has it
AtSheet(t) ==
    IF sheets_to_update[t] = <<>> THEN {} ELSE {Head(sheets_to_update[t])} \cap DOMAIN watchlists

\* C25: a refresh of one named watchlist touches no other watchlist, and a
\* refresh of a name the store does not have touches nothing: the call leaves
\* store and ledger alone and has at most that name to visit, the names yet to
\* visit never grow, and every step of a pass leaves the entries, the flags and
\* the ledger rows of every watchlist but the one it is at as they are.
C25_OtherWatchlistsUntouched ==
    [][/\ \A s \in Sheets \ {NoSheet} :
             /\ fetch_stock_prices("t1", s) =>
                    (sheets_to_update'["t1"] = <<s>> /\ UNCHANGED shared)
             /\ refresh_tab_prices("t1", s) => UNCHANGED shared
       /\ \A s \in {FlaskSheet, UnknownTab} :
             refresh("t1", s) =>
                 (Range(sheets_to_update'["t1"]) \subseteq {s} /\ UNCHANGED shared)
       /\ InPass("t1") =>
             /\ Range(sheets_to_update'["t1"]) \subseteq Range(sheets_to_update["t1"])
             /\ OthersSame(AtSheet("t1"))]_vars

\* a refresh of FIBOST alone has given its entry a status, and the entry of
\* Intraday is as it was loaded
C25_Witness ==
    /\ {"Intraday", "FIBOST"} \subseteq DOMAIN watchlists
    /\ \A k \in DOMAIN watchlists["Intraday"] : watchlists["Intraday"][k].status = "Not Fetched"
    /\ \E k \in DOMAIN watchlists["FIBOST"] : watchlists["FIBOST"][k].status = "Target Hit!"
    /\ Flag(target_hit_logged, "FIBOST", ScripNames[2])
    /\ pc["t1"] = "done"

\* no request is under way
AllFinished == \A t \in Threads : pc[t] \in {"idle", "done"}

\* C26: when a reload and the refresh it overlapped have both finished, the
\* store holds for every watchlist the entries of the reload (name, symbol and
\* target of each, in order), not the list the refresh had read before it, and
\* no pair that the reload did not load has its flag set.
C26_ReloadWins ==
    (reloads > 0 /\ AllFinished) =>
        /\ \A s \in DOMAIN watchlists :
               /\ Len(watchlists[s]) = Len(EntriesOf(loaded, s))
               /\ \A k \in DOMAIN watchlists[s] :
                      Identity(watchlists[s][k]) = Identity(loaded[s][k])
        /\ \A s \in DOMAIN target_hit_logged : \A n \in DOMAIN target_hit_logged[s] :
               target_hit_logged[s][n] =>
                   \E k \in DOMAIN EntriesOf(loaded, s) : loaded[s][k].scrip_name = n

\* C27: however refresh invocations overlap, the hit log never holds more than
\* one row for a (watchlist, scrip) pair whose flag was false when they began
\* (no reload in between): of two tasks that both find the pair at or above its
\* target, at most one appends.
C27_OneRowPerPair ==
    \A s \in SheetNames : \A k \in DOMAIN ScripNames :
        Len(RowsOf(LOG_FILE, s, ScripNames[k])) <= 1

====
